---- MODULE Spec2Model ----
(***************************************************************************)
(* A model of src/app.py: the image normalisation pipeline process_image   *)
(* and the request handlers that call it or touch the billboards table.    *)
(*                                                                         *)
(* Strings are run-length encoded: a sequence of blocks [ch, n], n copies  *)
(* of a character of class ch.  The classes are the ones the code tells    *)
(* apart: "A" a character of the base64 alphabet, "=" the pad character,   *)
(* "," the comma, "!" any other ASCII character, "U" a non-ASCII one.      *)
(* An image is described by what PIL reports of it: mode, size, the EXIF   *)
(* orientation tag, and one channel of one pixel with its alpha.           *)
(***************************************************************************)
EXTENDS Integers, Sequences, FiniteSets, Bags, TLC

VARIABLES
    inp,        \* the argument of the process_image call under study
    res,        \* its result, NoResult before the call returns
    gen,        \* how many times the output was fed back as an input
    store,      \* the billboards table: id -> row, or NoRow
    nextId,     \* the number of ids uuid4 has handed out
    gets,       \* the bag of get_billboard requests between select and update
    completed,  \* the bag of ids of the get_billboard requests that answered 200
    req,        \* the request the last handler step answered
    resp        \* its response

vars == <<inp, res, gen, store, nextId, gets, completed, req, resp>>
pipeVars == <<inp, res, gen>>
appVars == <<store, nextId, gets, completed, req, resp>>

---------------------------------------------------------------------------
\* Configuration (module level of app.py)

MaxWidth == 1920
MaxHeight == 1080
MAX_FILE_SIZE_MB == 10
MAX_IMAGE_SIZE == <<MaxWidth, MaxHeight>>
MaxUploadBytes == MAX_FILE_SIZE_MB * 1024 * 1024

\* PIL.Image.MAX_IMAGE_PIXELS, the decompression bomb limit Image.open applies
MAX_IMAGE_PIXELS == ((1024 * 1024 * 1024) \div 4) \div 3

---------------------------------------------------------------------------
\* Bounds of the model

MaxBlocks == 3      \* blocks in an enumerated string
MaxRun == 2         \* characters in a block of an enumerated string
SizeSlack == 2      \* decoded sizes within this distance of MaxUploadBytes
DimSlack == 4       \* widths and heights within this distance of the box
MaxGen == 1         \* times an output is fed back
MaxIds == 2         \* ids uuid4 hands out
MaxGets == 2        \* get_billboard requests in flight
MaxViews == 2       \* get_billboard requests that read a row

---------------------------------------------------------------------------
\* Strings

Blk(c, k) == [ch |-> c, n |-> k]

RECURSIVE StrLen(_)
StrLen(s) == IF s = <<>> THEN 0 ELSE Head(s).n + StrLen(Tail(s))

\* ',' in s
HasComma(s) == \E i \in 1..Len(s) : s[i].ch = ","

\* s.split(',', 1)[1]: everything after the first comma
AfterFirstComma(s) ==
    LET i == CHOOSE k \in 1..Len(s) :
                 s[k].ch = "," /\ \A j \in 1..(k - 1) : s[j].ch # ","
    IN  (IF s[i].n > 1 THEN <<Blk(",", s[i].n - 1)>> ELSE <<>>)
            \o SubSeq(s, i + 1, Len(s))

\* lines 38-41: the base64 payload of a string
ExtractBase64(s) == IF HasComma(s) THEN AfterFirstComma(s) ELSE s

---------------------------------------------------------------------------
\* base64.b64decode(s) with its default validate=False, as binascii
\* a2b_base64 computes it: characters outside the alphabet are skipped, a pad
\* counts only in the second half of a quad, and a completed pad sequence ends
\* the parse.  The bytes' values are not modelled, their number is.

\* bytes written once t alphabet characters were consumed
BytesAfter(t) == 3 * (t \div 4) + (IF t % 4 > 1 THEN (t % 4) - 1 ELSE 0)

RECURSIVE A2B(_, _, _, _)
A2B(s, quad, pads, out) ==
    IF s = <<>>
    THEN IF quad = 0 THEN [ok |-> TRUE, len |-> out]
         ELSE [ok |-> FALSE, len |-> 0]
    ELSE LET b == Head(s) IN
         CASE b.ch = "=" ->
                IF quad >= 2
                THEN IF b.n >= 4 - quad - pads
                     THEN [ok |-> TRUE, len |-> out]
                     ELSE A2B(Tail(s), quad, pads + b.n, out)
                ELSE A2B(Tail(s), quad, pads, out)
           [] b.ch = "A" ->
                A2B(Tail(s), (quad + b.n) % 4, 0,
                    out + BytesAfter(quad + b.n) - BytesAfter(quad))
           [] OTHER -> A2B(Tail(s), quad, pads, out)

IsAscii(s) == \A i \in 1..Len(s) : s[i].ch # "U"

b64decode(s) ==
    IF ~IsAscii(s)
    THEN [ok |-> FALSE, len |-> 0, exc |-> "ValueError",
          msg |-> "string argument should contain only ASCII characters"]
    ELSE LET r == A2B(s, 0, 0, 0) IN
         IF r.ok THEN [ok |-> TRUE, len |-> r.len, exc |-> "", msg |-> ""]
         ELSE [ok |-> FALSE, len |-> 0, exc |-> "binascii.Error",
               msg |-> "Incorrect padding"]

\* base64.b64encode of k bytes: 4 characters per 3 bytes, padded with "="
b64encode(k) ==
    LET r == k % 3
        data == 4 * (k \div 3) + (IF r = 0 THEN 0 ELSE r + 1)
    IN  (IF data > 0 THEN <<Blk("A", data)>> ELSE <<>>)
            \o (IF r = 0 THEN <<>> ELSE <<Blk("=", 3 - r)>>)

\* "data:image/jpeg;base64," of line 86
JpegPrefix ==
    <<Blk("A", 4), Blk("!", 1), Blk("A", 10), Blk("!", 1), Blk("A", 6), Blk(",", 1)>>

---------------------------------------------------------------------------
\* Images, as PIL reports them

Img(m, t, w, h, o, v, a, tr) ==
    [isImage |-> TRUE, mode |-> m, trns |-> t, w |-> w, h |-> h, orient |-> o,
     v |-> v, a |-> a, truncated |-> tr]

\* bytes that are no image file
NotImage ==
    [isImage |-> FALSE, mode |-> "", trns |-> FALSE, w |-> 0, h |-> 0, orient |-> 0,
     v |-> 0, a |-> 0, truncated |-> FALSE]

Raise(e, m) == [ok |-> FALSE, exc |-> e, msg |-> m, img |-> NotImage]
Return(i) == [ok |-> TRUE, exc |-> "", msg |-> "", img |-> i]

\* line 51, Image.open(io.BytesIO(image_bytes)): the header is parsed, the
\* pixel count is checked against the decompression bomb limit, and the
\* pixel data is left unread
Image_open(len, content) ==
    IF len = 0 \/ ~content.isImage
    THEN Raise("UnidentifiedImageError", "cannot identify image file")
    ELSE IF content.w * content.h > 2 * MAX_IMAGE_PIXELS
    THEN Raise("DecompressionBombError", "could be decompression bomb DOS attack")
    ELSE Return(content)

\* the EXIF orientations whose transposition swaps width and height
SwapsAxes(o) == o \in {5, 6, 7, 8}

\* line 54, ImageOps.exif_transpose(image): reads the pixel data (a
\* truncated file fails here), transposes by the orientation tag 2..8 and
\* returns an image without the tag
exif_transpose(image) ==
    IF image.truncated
    THEN Raise("OSError", "image file is truncated")
    ELSE Return([image EXCEPT !.w = IF SwapsAxes(image.orient) THEN image.h ELSE image.w,
                              !.h = IF SwapsAxes(image.orient) THEN image.w ELSE image.h,
                              !.orient = 0])

\* libImaging's DIV255 and BLEND8: in1 where the mask is 0, in2 where it is 255
DIV255(x) == (((x + 128) \div 256) + (x + 128)) \div 256
BLEND8(mask, in1, in2) == DIV255(in1 * (255 - mask) + in2 * mask)

\* lines 60-62: paste the image on a white RGB background, its alpha as mask
PasteOnWhite(image) ==
    [image EXCEPT !.mode = "RGB", !.v = BLEND8(image.a, 255, image.v),
                  !.a = 255, !.trns = FALSE]

\* line 64, image.convert('RGB'): the colour channels, no alpha
convert_RGB(image) ==
    [image EXCEPT !.mode = "RGB", !.a = 255, !.trns = FALSE]

\* lines 57-64
NormalizeMode(image) ==
    IF image.mode \notin {"RGB", "L"}
    THEN IF image.mode = "RGBA" THEN PasteOnWhite(image) ELSE convert_RGB(image)
    ELSE image

\* PIL's Image.thumbnail, its size computation (preserve_aspect_ratio with
\* round_aspect): of floor and ceiling of the scaled side, the one whose
\* aspect ratio is nearer the image's, at least 1.  The arithmetic here is
\* exact; PIL's is floating point, and where the two candidates are exactly
\* as near, its rounding errors decide: up tells whether they favour the
\* ceiling
Abs(x) == IF x < 0 THEN -x ELSE x
Ceil(p, q) == (p + q - 1) \div q
AtLeast1(n) == IF n < 1 THEN 1 ELSE n

\* a size computation that scales by the width alone
ThumbnailSizeByWidth(w, h, x, y, up) ==
    IF x >= w /\ y >= h THEN <<w, h>> ELSE <<x, AtLeast1((x * h) \div w)>>

\* min(floor, ceil, key = ...) given the two keys
Nearer(lo, hi, keyLo, keyHi, up) ==
    IF keyLo < keyHi THEN lo
    ELSE IF keyLo > keyHi THEN hi
    ELSE IF up THEN hi ELSE lo

ThumbnailSize(w, h, x, y, up) ==
    IF x >= w /\ y >= h THEN <<w, h>>
    ELSE IF x * h >= w * y
    THEN \* x / y >= aspect: the height is bound, x = round_aspect(y * aspect)
         LET lo == (y * w) \div h
             hi == Ceil(y * w, h)
             pick == Nearer(lo, hi, Abs(w * y - lo * h), Abs(w * y - hi * h), up)
         IN  <<AtLeast1(pick), y>>
    ELSE \* the width is bound, y = round_aspect(x / aspect)
         LET lo == (x * h) \div w
             hi == Ceil(x * h, w)
             pick == IF lo = 0 THEN lo
                     ELSE Nearer(lo, hi, Abs(w * lo - x * h) * hi,
                                 Abs(w * hi - x * h) * lo, up)
         IN  <<x, AtLeast1(pick)>>

\* the guard of line 67
TooBig(image) == image.w > MAX_IMAGE_SIZE[1] \/ image.h > MAX_IMAGE_SIZE[2]

thumbnail(image, up) ==
    LET sz == ThumbnailSize(image.w, image.h, MAX_IMAGE_SIZE[1], MAX_IMAGE_SIZE[2], up)
    IN  [image EXCEPT !.w = sz[1], !.h = sz[2]]

\* a resize to the box itself, whatever the image's size
ResizeToBox(image, up) == [image EXCEPT !.w = MAX_IMAGE_SIZE[1], !.h = MAX_IMAGE_SIZE[2]]

\* lines 67-68
Resize(image, up) == IF TooBig(image) THEN thumbnail(image, up) ELSE image

\* round(p / q, digits) read as an integer number of 10^-digits: Python
\* rounds half to even
RoundHalfEven(p, q) ==
    LET d == p \div q
        r == p % q
    IN  IF 2 * r > q \/ (2 * r = q /\ d % 2 = 1) THEN d + 1 ELSE d

---------------------------------------------------------------------------
\* process_image

\* An argument of process_image: the JSON value (kind) and, of a string,
\* its characters and the image file its decoded bytes are
Str(r, c) == [kind |-> "str", raw |-> r, content |-> c]
NonStr(k) == [kind |-> k, raw |-> <<>>, content |-> NotImage]

\* what  ',' in x,  x.split(',', 1)  and  base64.b64decode(x)  raise for a
\* JSON value that is no string: null, a number, a list or an object with
\* or without the key ","
NonStrException(kind) ==
    CASE kind \in {"null", "num"} -> "TypeError"
      [] kind = "listComma" -> "AttributeError"
      [] OTHER -> "TypeError"

\* a size guard that also rejects the limit itself
TooLargeAtLimit(len) == len >= MAX_FILE_SIZE_MB * 1024 * 1024

\* line 47, the size guard
TooLarge(len) == len > MAX_FILE_SIZE_MB * 1024 * 1024

\* a pipeline that bounds the size before it corrects the orientation
NormalizeResizeFirst(x, up) ==
    IF x.kind # "str"
    THEN Raise(NonStrException(x.kind), "not a string")
    ELSE LET dec == b64decode(ExtractBase64(x.raw)) IN
         IF ~dec.ok THEN Raise(dec.exc, dec.msg)
         ELSE IF TooLarge(dec.len)
         THEN Raise("ValueError", "Image too large. Maximum size is 10MB")
         ELSE LET opened == Image_open(dec.len, x.content) IN
              IF ~opened.ok THEN opened
              ELSE LET upright == exif_transpose(Resize(opened.img, up)) IN
                   IF ~upright.ok THEN upright
                   ELSE Return(NormalizeMode(upright.img))

\* lines 37-78: the pipeline up to the image that is saved
Normalize(x, up) ==
    IF x.kind # "str"
    THEN Raise(NonStrException(x.kind), "not a string")
    ELSE LET dec == b64decode(ExtractBase64(x.raw)) IN
         IF ~dec.ok THEN Raise(dec.exc, dec.msg)
         ELSE IF TooLarge(dec.len)
         THEN Raise("ValueError", "Image too large. Maximum size is 10MB")
         ELSE LET opened == Image_open(dec.len, x.content) IN
              IF ~opened.ok THEN opened
              ELSE LET upright == exif_transpose(opened.img) IN
                   IF ~upright.ok THEN upright
                   ELSE Return(Resize(NormalizeMode(upright.img), up))

\* the exception classes the pipeline raises, all subclasses of Exception
Exceptions ==
    {"TypeError", "AttributeError", "ValueError", "binascii.Error",
     "UnidentifiedImageError", "DecompressionBombError", "OSError"}

\* a handler that catches ValueError alone
CatchesValueError(exc) == exc = "ValueError"

\* line 101, except Exception
Catches(exc) == exc \in Exceptions

\* what image.save writes (lines 71-78): a JPEG file, no EXIF, no alpha.
\* The encoding is lossy: v stands for the pixel that was encoded, and the
\* size of the file is the encoder's (encLen below)
SavedJpeg(image) == [image EXCEPT !.orient = 0, !.a = 255, !.trns = FALSE]

\* lines 28-105.  lib is what the libraries decide: encLen, the number of
\* bytes the JPEG encoder writes, and up, the rounding of a tie in thumbnail
process_image(x, lib) ==
    LET n == Normalize(x, lib.up)
        encLen == lib.encLen
    IN
    IF n.ok
    THEN LET image_bytes == b64decode(ExtractBase64(x.raw)).len IN
         [success |-> TRUE,
          image_data |-> Str(JpegPrefix \o b64encode(encLen), SavedJpeg(n.img)),
          original_size_kb |-> RoundHalfEven(image_bytes * 10, 1024),
          final_size_kb |-> RoundHalfEven(encLen * 10, 1024),
          compression_ratio |->
              IF encLen > 0 THEN RoundHalfEven(image_bytes * 100, encLen) ELSE 100,
          dimensions |-> <<n.img.w, n.img.h>>]
    ELSE IF Catches(n.exc)
    THEN [success |-> FALSE, error |-> n.msg]
    ELSE [raised |-> n.exc]

---------------------------------------------------------------------------
\* The arguments process_image is studied on

Blocks == {Blk(c, k) : c \in {"A", "=", "!", ","}, k \in 1..MaxRun}

\* every string of at most MaxBlocks blocks, and some with non-ASCII characters
Strings ==
    UNION {[1..k -> Blocks] : k \in 0..MaxBlocks}
        \cup {<<Blk("U", 1)>>, <<Blk("A", 4), Blk("U", 1)>>,
              <<Blk("U", 1), Blk(",", 1), Blk("A", 4)>>}

SmallImage == Img("RGB", FALSE, 640, 480, 0, 100, 255, FALSE)
BigImage == Img("RGB", FALSE, 4000, 3000, 0, 100, 255, FALSE)
TruncatedImage == Img("RGB", FALSE, 640, 480, 0, 100, 255, TRUE)
BombImage == Img("RGB", FALSE, 20000, 20000, 0, 100, 255, FALSE)

StringInputs == {Str(r, c) : r \in Strings, c \in {NotImage, SmallImage}}

\* payloads whose decoded size is near the limit: bare, as a data URL, and
\* with a line break between the base64 characters
SizeInputs ==
    LET Lens == (MaxUploadBytes - SizeSlack)..(MaxUploadBytes + SizeSlack)
        Raws(k) == {b64encode(k), JpegPrefix \o b64encode(k),
                    <<Blk("A", 4), Blk("!", 1)>> \o b64encode(k - 3)}
    IN  {Str(r, c) : r \in UNION {Raws(k) : k \in Lens},
                     c \in {NotImage, SmallImage, BigImage, TruncatedImage, BombImage}}

Near(n) == (n - DimSlack)..(n + DimSlack)
\* 14 x 1120 is a tie of thumbnail: 13.5 x 1080
Sides == {1, 2, 14, 1120, 3000, 4000, 20000} \cup Near(MaxWidth) \cup Near(MaxHeight)
Orientations == 0..8

DataUrl == JpegPrefix \o b64encode(4 * 1024)

DimInputs ==
    {Str(DataUrl, Img("RGB", FALSE, w, h, o, 100, 255, FALSE)) :
        w \in Sides, h \in Sides, o \in Orientations}

Modes == {"RGB", "L", "RGBA", "LA", "P", "CMYK", "1"}
ChanVals == {0, 100, 255}

\* alpha-bearing: an alpha channel (RGBA, LA) or a palette with a
\* transparency entry (P with trns)
HasAlpha(image) == image.mode \in {"RGBA", "LA"} \/ image.trns

ModeInputs ==
    {Str(DataUrl, i) : i \in
        {j \in {Img(m, t, d[1], d[2], o, v, a, FALSE) :
                    m \in Modes, t \in BOOLEAN, d \in {<<640, 480>>, <<4000, 3000>>},
                    o \in {0, 6}, v \in ChanVals, a \in ChanVals} :
            /\ j.trns => j.mode = "P"
            /\ j.a # 255 => HasAlpha(j)}}

NonStrInputs == {NonStr(k) : k \in {"null", "num", "list", "listComma", "obj"}}

PipeInputs == StringInputs \cup SizeInputs \cup DimInputs \cup ModeInputs \cup NonStrInputs

\* sizes of the JPEG the encoder writes, and the rounding of ties
EncLens == {700, 701, 200000}
Libs == [encLen : EncLens, up : BOOLEAN]

NoResult == [pending |-> TRUE]

---------------------------------------------------------------------------
\* The billboards table and the handlers' requests (initial values)

NoRow == [present |-> FALSE]
NoRequest == [handler |-> "none"]
NoResponse == [handler |-> "none", status |-> 0]

AppInit ==
    /\ store = [i \in 1..MaxIds |-> NoRow]
    /\ nextId = 0
    /\ gets = EmptyBag
    /\ completed = EmptyBag
    /\ req = NoRequest
    /\ resp = NoResponse

---------------------------------------------------------------------------
\* process_image as a state machine: one call, and its output fed back

PipeInit ==
    /\ inp \in PipeInputs
    /\ res = NoResult
    /\ gen = 0
    /\ AppInit

\* the call returns
Process ==
    /\ res = NoResult
    /\ \E lib \in Libs : res' = process_image(inp, lib)
    /\ UNCHANGED <<inp, gen>>
    /\ UNCHANGED appVars

\* a client submits the image a successful call returned
Reprocess ==
    /\ res # NoResult
    /\ "success" \in DOMAIN res
    /\ res.success
    /\ gen < MaxGen
    /\ inp' = res.image_data
    /\ res' = NoResult
    /\ gen' = gen + 1
    /\ UNCHANGED appVars

PipeNext == Process \/ Reprocess

SpecPipe == PipeInit /\ [][PipeNext]_vars

---------------------------------------------------------------------------
\* Properties of process_image (checked under SpecPipe)

Returned == res # NoResult
Succeeded == Returned /\ "success" \in DOMAIN res /\ res.success
Failed == Returned /\ "success" \in DOMAIN res /\ ~res.success

\* the size of the image once its orientation is corrected
CorrectedW == IF SwapsAxes(inp.content.orient) THEN inp.content.h ELSE inp.content.w
CorrectedH == IF SwapsAxes(inp.content.orient) THEN inp.content.w ELSE inp.content.h

\* the number of decoded bytes of a string argument
DecodedLen == b64decode(ExtractBase64(inp.raw)).len
Decodes == inp.kind = "str" /\ b64decode(ExtractBase64(inp.raw)).ok

\* C1: every call of process_image returns, and returns one of two shapes: a
\* success with image_data, original_size_kb, final_size_kb,
\* compression_ratio and dimensions when no step failed, or a failure with
\* nothing but a reason when some step failed; no exception leaves the call.
C1_TwoShapes ==
    Returned =>
        \/ /\ DOMAIN res = {"success", "image_data", "original_size_kb",
                            "final_size_kb", "compression_ratio", "dimensions"}
           /\ res.success = TRUE
           /\ \A up \in BOOLEAN : Normalize(inp, up).ok
        \/ /\ DOMAIN res = {"success", "error"}
           /\ res.success = FALSE
           /\ \A up \in BOOLEAN : ~Normalize(inp, up).ok
           /\ \A up \in BOOLEAN : res.error = Normalize(inp, up).msg

\* a value that is no string was answered with a failure result
C1_Witness == Failed /\ inp.kind = "listComma" /\ DOMAIN res = {"success", "error"}

\* C3: a payload that decodes to more than 10*1024*1024 bytes fails with the
\* too-large reason that names the limit, image or not; one that decodes to
\* exactly 10*1024*1024 bytes of a valid image succeeds.
C3_SizeGuard ==
    (Returned /\ Decodes) =>
        /\ DecodedLen > 10 * 1024 * 1024 =>
               Failed /\ res.error = "Image too large. Maximum size is 10MB"
        /\ (/\ DecodedLen = 10 * 1024 * 1024
            /\ inp.content.isImage
            /\ ~inp.content.truncated
            /\ inp.content.w * inp.content.h <= 2 * MAX_IMAGE_PIXELS) => Succeeded

\* a valid image of exactly the limit was processed
C3_Witness ==
    Succeeded /\ Decodes /\ DecodedLen = 10 * 1024 * 1024 /\ inp.content = BigImage

\* C4: when the orientation-corrected image is wider than 1920 or higher
\* than 1080, the output fits 1920x1080, both sides are at least 1, one side
\* is the box's and the other is within one pixel of the side the input's
\* aspect ratio gives.
C4_Bounding ==
    (Succeeded /\ (CorrectedW > 1920 \/ CorrectedH > 1080)) =>
        LET ow == res.dimensions[1]
            oh == res.dimensions[2]
        IN  /\ 1 <= ow /\ ow <= 1920
            /\ 1 <= oh /\ oh <= 1080
            /\ \/ ow = 1920 /\ Abs(oh * CorrectedW - 1920 * CorrectedH) < CorrectedW
               \/ oh = 1080 /\ Abs(ow * CorrectedH - 1080 * CorrectedW) < CorrectedH

\* an image too high for the box, and narrower than the box, was bounded
C4_Witness ==
    /\ Succeeded
    /\ CorrectedW = MaxWidth - 1 /\ CorrectedH = 4000
    /\ res.dimensions = <<518, 1080>>

\* C5 as stated: an image whose width is at most 1920 and whose height is at
\* most 1080 keeps exactly its width and height.
C5_AsStated ==
    (Succeeded /\ inp.content.w <= 1920 /\ inp.content.h <= 1080) =>
        res.dimensions = <<inp.content.w, inp.content.h>>

\* C5, amended: an image whose orientation-corrected width is at most 1920
\* and height at most 1080 keeps exactly its orientation-corrected width and
\* height (no resize, no upscaling), and an output fed back keeps its size.
C5_KeepsSize ==
    /\ (Succeeded /\ CorrectedW <= 1920 /\ CorrectedH <= 1080) =>
           res.dimensions = <<CorrectedW, CorrectedH>>
    /\ (Succeeded /\ gen >= 1) =>
           res.dimensions = <<inp.content.w, inp.content.h>>

\* the output of a call that bounded a 4000x3000 image went through again
C5_Witness == Succeeded /\ gen = 1 /\ res.dimensions = <<1440, 1080>>

\* the composite of the pixel over white, its alpha the weight
OverWhite(image) == BLEND8(image.a, 255, image.v)

\* C6: every alpha-bearing source comes out as an opaque 3-channel image
\* whose pixels are the source's composited over white by their alpha.
C6_AlphaOverWhite ==
    (Succeeded /\ HasAlpha(inp.content)) =>
        /\ res.image_data.content.mode = "RGB"
        /\ res.image_data.content.a = 255
        /\ res.image_data.content.v = OverWhite(inp.content)

\* strict base64: alphabet characters, then at most two pads, in quads
ValidBase64(s) ==
    /\ \A i \in 1..Len(s) : s[i].ch \in {"A", "="}
    /\ \A i, j \in 1..Len(s) : (s[i].ch = "=" /\ i < j) => s[j].ch = "="
    /\ StrLen(SelectSeq(s, LAMBDA b : b.ch = "=")) <= 2
    /\ StrLen(s) % 4 = 0

DecodeErrors ==
    {"Incorrect padding", "string argument should contain only ASCII characters"}

\* C7: a payload that is not valid base64 fails with the decode error.
C7_MalformedFails ==
    (Returned /\ inp.kind = "str" /\ ~ValidBase64(ExtractBase64(inp.raw))) =>
        Failed /\ res.error \in DecodeErrors

\* C8: the orientation is corrected before the size is bounded: an image
\* whose tag swaps the axes is bounded as its transposition, so the output
\* is landscape when the transposition is, portrait when it is, and a
\* 3000x4000 image tagged with a quarter turn comes out 1440x1080.
C8_OrientationFirst ==
    (Succeeded /\ SwapsAxes(inp.content.orient)) =>
        /\ (inp.content.h <= 1920 /\ inp.content.w <= 1080) =>
               res.dimensions = <<inp.content.h, inp.content.w>>
        /\ res.dimensions[1] <= 1920 /\ res.dimensions[2] <= 1080
        /\ inp.content.h > inp.content.w => res.dimensions[1] >= res.dimensions[2]
        /\ inp.content.h < inp.content.w => res.dimensions[1] <= res.dimensions[2]
        /\ (inp.content.w = 3000 /\ inp.content.h = 4000) =>
               res.dimensions = <<1440, 1080>>

\* the 3000x4000 image with orientation 6 was processed
C8_Witness ==
    /\ Succeeded
    /\ inp.content.w = 3000 /\ inp.content.h = 4000 /\ inp.content.orient = 6
    /\ res.dimensions = <<1440, 1080>>

---------------------------------------------------------------------------
\* The request handlers

Ids == 1..MaxIds

\* JSON bodies: a text field is absent, empty or a text; image_data is
\* absent ("missing") or an argument of process_image
Absent == "<absent>"
MissingImage == NonStr("missing")

\* Python's  not value
Falsy(x) == x.kind \in {"missing", "null"} \/ (x.kind = "str" /\ x.raw = <<>>)

TransparentPng == Str(DataUrl, Img("RGBA", FALSE, 640, 480, 0, 0, 0, FALSE))
LargePhoto == Str(DataUrl, Img("RGB", FALSE, 3000, 4000, 6, 100, 255, FALSE))
PlainText == Str(<<Blk("A", 8)>>, NotImage)

AppImages == {TransparentPng, LargePhoto, PlainText, MissingImage}

\* every image with the required texts, and one body per missing text
CreateBodies ==
    {[title |-> "Sign", location |-> "Mission St", image_data |-> i] : i \in AppImages}
        \cup {[title |-> "", location |-> "Mission St", image_data |-> TransparentPng]}
        \cup {[title |-> "Sign", location |-> Absent, image_data |-> TransparentPng]}

ValidateBodies == {[image_data |-> i] : i \in AppImages}

\* no image of AppImages has a tie
AppLibs == {[encLen |-> 700, up |-> FALSE]}

Metrics(r) ==
    [original_size_kb |-> r.original_size_kb, final_size_kb |-> r.final_size_kb,
     compression_ratio |-> r.compression_ratio, dimensions |-> r.dimensions]

Row(data, image) ==
    [present |-> TRUE, title |-> data.title, location |-> data.location,
     image_data |-> image, views |-> 0]

\* a row that keeps the payload as it was submitted
RowOfSubmitted(data, r) == Row(data, data.image_data)

\* lines 168-178: the row of a submission whose image was processed
RowOf(data, r) == Row(data, r.image_data)

\* lines 146-198, POST /billboards.  inserted: whether the insert returned
\* the row; when it did not, or raised, the handler answers 500
create_billboard(data, lib, inserted) ==
    /\ req' = [handler |-> "create", data |-> data]
    /\ IF data.title \in {Absent, ""}
       THEN /\ resp' = [handler |-> "create", status |-> 400,
                        error |-> "Missing required field: title"]
            /\ UNCHANGED <<store, nextId>>
       ELSE IF data.location \in {Absent, ""}
       THEN /\ resp' = [handler |-> "create", status |-> 400,
                        error |-> "Missing required field: location"]
            /\ UNCHANGED <<store, nextId>>
       ELSE IF Falsy(data.image_data)
       THEN /\ resp' = [handler |-> "create", status |-> 400,
                        error |-> "Missing required field: image_data"]
            /\ UNCHANGED <<store, nextId>>
       ELSE LET image_result == process_image(data.image_data, lib) IN
            IF ~image_result.success
            THEN /\ resp' = [handler |-> "create", status |-> 400,
                             error |-> <<"Image processing failed: ", image_result.error>>]
                 /\ UNCHANGED <<store, nextId>>
            ELSE IF inserted
            THEN /\ nextId < MaxIds
                 /\ nextId' = nextId + 1
                 /\ store' = [store EXCEPT ![nextId + 1] = RowOf(data, image_result)]
                 /\ resp' = [handler |-> "create", status |-> 201,
                             billboard |-> nextId + 1,
                             image_processing |-> Metrics(image_result)]
            ELSE /\ resp' = [handler |-> "create", status |-> 500,
                             error |-> "Failed to create billboard"]
                 /\ UNCHANGED <<store, nextId>>
    /\ UNCHANGED <<gets, completed>>
    /\ UNCHANGED pipeVars

\* a validation that also stores the image it validated
validate_image_storing(data, lib) ==
    /\ req' = [handler |-> "validate", data |-> data]
    /\ IF data.image_data.kind = "missing"
       THEN /\ resp' = [handler |-> "validate", status |-> 400,
                        error |-> "Missing image_data"]
            /\ UNCHANGED <<store, nextId>>
       ELSE LET result == process_image(data.image_data, lib) IN
            IF result.success
            THEN /\ resp' = [handler |-> "validate", status |-> 200, valid |-> TRUE,
                             processing_info |-> Metrics(result)]
                 /\ nextId < MaxIds
                 /\ nextId' = nextId + 1
                 /\ store' = [store EXCEPT ![nextId + 1] =
                                 Row([title |-> "", location |-> ""], result.image_data)]
            ELSE /\ resp' = [handler |-> "validate", status |-> 400, valid |-> FALSE,
                             error |-> result.error]
                 /\ UNCHANGED <<store, nextId>>
    /\ UNCHANGED <<gets, completed>>
    /\ UNCHANGED pipeVars

\* lines 238-267, POST /image/validate
validate_image(data, lib) ==
    /\ req' = [handler |-> "validate", data |-> data]
    /\ IF data.image_data.kind = "missing"
       THEN resp' = [handler |-> "validate", status |-> 400,
                     error |-> "Missing image_data"]
       ELSE LET result == process_image(data.image_data, lib) IN
            IF result.success
            THEN resp' = [handler |-> "validate", status |-> 200, valid |-> TRUE,
                          processing_info |-> Metrics(result)]
            ELSE resp' = [handler |-> "validate", status |-> 400, valid |-> FALSE,
                          error |-> result.error]
    /\ UNCHANGED <<store, nextId, gets, completed>>
    /\ UNCHANGED pipeVars

\* the requests that read a row, answered or not
Reads == BagCardinality(gets) + BagCardinality(completed)

\* lines 126-133, GET /billboards/<id>: the select
get_billboard_select(id) ==
    /\ BagCardinality(gets) < MaxGets
    /\ Reads < MaxViews
    /\ IF ~store[id].present
       THEN /\ req' = [handler |-> "get", id |-> id]
            /\ resp' = [handler |-> "get", status |-> 404, error |-> "Billboard not found"]
            /\ UNCHANGED gets
       ELSE /\ gets' = gets (+) SetToBag({[id |-> id, views |-> store[id].views]})
            /\ UNCHANGED <<req, resp>>
    /\ UNCHANGED <<store, nextId, completed>>
    /\ UNCHANGED pipeVars

\* the row as the update of line 136 leaves it
Viewed(row, views) == [row EXCEPT !.views = views]

\* lines 135-142: the update of the view count from the row that was read,
\* and the answer.  The update matches no row once the row is deleted
get_billboard_update(g) ==
    /\ BagIn(g, gets)
    /\ store' = IF store[g.id].present
                THEN [store EXCEPT ![g.id] = Viewed(@, g.views + 1)]
                ELSE store
    /\ req' = [handler |-> "get", id |-> g.id]
    /\ resp' = [handler |-> "get", status |-> 200, views |-> g.views + 1]
    /\ completed' = completed (+) SetToBag({g.id})
    /\ gets' = gets (-) SetToBag({g})
    /\ UNCHANGED nextId
    /\ UNCHANGED pipeVars

\* lines 200-212, DELETE /billboards/<id>
delete_billboard(id) ==
    /\ req' = [handler |-> "delete", id |-> id]
    /\ IF store[id].present
       THEN /\ store' = [store EXCEPT ![id] = NoRow]
            /\ resp' = [handler |-> "delete", status |-> 200]
       ELSE /\ resp' = [handler |-> "delete", status |-> 404]
            /\ UNCHANGED store
    /\ UNCHANGED <<nextId, gets, completed>>
    /\ UNCHANGED pipeVars

Create == \E data \in CreateBodies, lib \in AppLibs, inserted \in BOOLEAN :
              create_billboard(data, lib, inserted)
Validate == \E data \in ValidateBodies, lib \in AppLibs : validate_image(data, lib)
GetSelect == \E id \in Ids : get_billboard_select(id)
GetUpdate == \E g \in BagToSet(gets) : get_billboard_update(g)
Delete == \E id \in Ids : delete_billboard(id)

Init ==
    /\ inp = NonStr("null")
    /\ res = NoResult
    /\ gen = 0
    /\ AppInit

Next == Create \/ Validate \/ GetSelect \/ GetUpdate \/ Delete

Spec == Init /\ [][Next]_vars

---------------------------------------------------------------------------
\* Properties of the handlers (checked under Spec)

Answered(h) == resp'.handler = h /\ <<store, req, resp>>' # <<store, req, resp>>

\* whether process_image rejects the payload (no encoder output matters)
Rejects(image) == \A e \in AppLibs : ~process_image(image, e).success

\* C2: a create request whose image normalization fails (or that lacks a
\* required field) is answered 400 and inserts nothing; one that succeeds
\* inserts at most one row, whose image_data is the normalizer's output for
\* the submitted payload; so every row in the store holds a normalized JPEG.
C2_CreatePersistsNormalized ==
    [][Answered("create") =>
        LET data == req'.data
            refused == \/ data.title \in {Absent, ""}
                       \/ data.location \in {Absent, ""}
                       \/ Falsy(data.image_data)
                       \/ Rejects(data.image_data)
        IN  /\ refused => (store' = store /\ resp'.status = 400)
            /\ ~refused =>
                 \/ store' = store /\ resp'.status = 500
                 \/ /\ resp'.status = 201
                    /\ \E id \in Ids, e \in AppLibs :
                         /\ ~store[id].present
                         /\ store'[id].present
                         /\ store'[id].image_data = process_image(data.image_data, e).image_data
                         /\ store'[id].image_data.raw = JpegPrefix \o b64encode(e.encLen)
                         /\ \A other \in Ids \ {id} : store'[other] = store[other]
            /\ \A id \in Ids : store'[id].present =>
                   store'[id].image_data.content.mode \in {"RGB", "L"}
    ]_vars

\* the large photo was submitted and its normalized form stored
C2_Witness ==
    /\ resp.handler = "create" /\ resp.status = 201
    /\ req.data.image_data = LargePhoto
    /\ store[resp.billboard].present
    /\ store[resp.billboard].image_data # LargePhoto
    /\ store[resp.billboard].image_data.content.w = 1440

C10_ViewsCounted ==
    \A id \in Ids : store[id].present => store[id].views = CopiesIn(id, completed)

====
